---- MODULE Spec2Model ----
(***************************************************************************)
(* repo-check: classification of local Git repositories as SAFE, UNSAFE    *)
(* or UNKNOWN to delete (types.rs, checker.rs) and the guarded deletion of *)
(* the selected candidates (delete.rs).                                    *)
(*                                                                         *)
(* Text is held the way the code reads it: the standard output of a git    *)
(* command is the sequence of its lines (what str::lines yields), and a    *)
(* line is the sequence of its characters.                                 *)
(***************************************************************************)
EXTENDS Integers, Sequences, FiniteSets, TLC

(* ---------------------------------------------------------------------- *)
(* Bounds of the model                                                     *)
(* ---------------------------------------------------------------------- *)
\* longest output of `git status --porcelain`, in lines
MaxStatusLines == 2
\* longest output of the stash, remote, for-each-ref and log queries, in lines
MaxLines == 1
\* longest findings list built by free calls of the RepoResult methods
MaxReasons == 3

(* ---------------------------------------------------------------------- *)
(* Text                                                                    *)
(* ---------------------------------------------------------------------- *)
Whitespace == {" "}

EmptyLine == <<>>
BlankLine == <<" ">>
TrackedLine == <<" ", "M", " ", "a">>
UntrackedLine == <<"?", "?", " ", "b">>
StashLine == <<"s", "t", "a", "s", "h">>
RemoteLine == <<"o", "r", "i", "g", "i", "n">>
RefLine == <<"r", "e", "f", "s">>
CommitLine == <<"c", "0", "f", "f", "e", "e">>

\* all sequences over S of length at most n
SeqUpTo(S, n) == UNION {[1..k -> S] : k \in 0..n}

\* str::is_empty
is_empty(line) == Len(line) = 0

\* str::starts_with
starts_with(line, prefix) ==
    /\ Len(line) >= Len(prefix)
    /\ \A i \in 1..Len(prefix) : line[i] = prefix[i]

\* output.trim().is_empty(): nothing but whitespace and line breaks
trim_is_empty(out) ==
    \A i \in 1..Len(out) : \A j \in 1..Len(out[i]) : out[i][j] \in Whitespace

\* output.lines().filter(|l| !l.is_empty()).count()
RECURSIVE count_non_empty(_)
count_non_empty(out) ==
    IF out = <<>> THEN 0
    ELSE (IF is_empty(Head(out)) THEN 0 ELSE 1) + count_non_empty(Tail(out))

(* ---------------------------------------------------------------------- *)
(* types.rs                                                                *)
(* ---------------------------------------------------------------------- *)
Status == {"Safe", "Unsafe", "Unknown"}

UncommittedChanges == <<"UncommittedChanges">>
StashExists == <<"StashExists">>
LocalOnlyCommits == <<"LocalOnlyCommits">>
NoRemoteRefs == <<"NoRemoteRefs">>
AllChecksOk == <<"AllChecksOk">>
GitError(msg) == <<"GitError", msg>>

IsGitError(reason) == reason[1] = "GitError"

\* RepoResult::new
new(path) ==
    [path |-> path,
     status |-> "Safe",
     reasons |-> <<>>,
     dirty_count |-> 0,
     stash_count |-> 0,
     local_only_commit_count |-> 0,
     errors |-> <<>>]

\* a mark_unsafe that only raises a Safe result
mark_unsafe_if_safe(r, reason) ==
    [r EXCEPT !.status = IF @ = "Safe" THEN "Unsafe" ELSE @, !.reasons = Append(@, reason)]

\* RepoResult::mark_unsafe
mark_unsafe(r, reason) ==
    [r EXCEPT !.status = "Unsafe", !.reasons = Append(@, reason)]

\* a mark_unknown that forgets the guard on Unsafe
mark_unknown_unguarded(r, reason) ==
    [r EXCEPT !.status = "Unknown", !.reasons = Append(@, reason)]

\* RepoResult::mark_unknown
mark_unknown(r, reason) ==
    [r EXCEPT !.status = IF @ # "Unsafe" THEN "Unknown" ELSE @,
              !.reasons = Append(@, reason)]

\* a finalize_safe that appends AllChecksOk only when it is not there yet
finalize_safe_once(r) ==
    IF r.status = "Safe" /\ \A i \in 1..Len(r.reasons) : r.reasons[i] # AllChecksOk
    THEN [r EXCEPT !.reasons = Append(@, AllChecksOk)]
    ELSE r

\* a finalize_safe that appends whatever the status is
finalize_safe_unconditional(r) ==
    [r EXCEPT !.reasons = Append(@, AllChecksOk)]

\* RepoResult::finalize_safe
finalize_safe(r) ==
    IF r.status = "Safe" THEN [r EXCEPT !.reasons = Append(@, AllChecksOk)] ELSE r

(* ---------------------------------------------------------------------- *)
(* checker.rs: the gateway                                                 *)
(* ---------------------------------------------------------------------- *)
ArgsStatus == <<"status", "--porcelain">>
ArgsStash == <<"stash", "list">>
ArgsRemote == <<"remote">>
ArgsRefs == <<"for-each-ref", "--format=%(refname)", "refs/remotes/">>
ArgsLog == <<"log", "--oneline", "--branches", "--not", "--remotes">>

\* what running git can come to: the process could not be started, it exited
\* with a failure and a text on standard error, or it exited with success
Spawned(exit_ok, stdout, stderr) ==
    [spawned |-> TRUE, success |-> exit_ok, stdout |-> stdout, stderr |-> stderr]
SpawnFailed == [spawned |-> FALSE, success |-> FALSE, stdout |-> <<>>, stderr |-> ""]

Stderr == {"fatal: not a git repository"}

Outcomes(lines, n) ==
    {Spawned(TRUE, out, "") : out \in SeqUpTo(lines, n)}
        \cup {Spawned(FALSE, <<>>, e) : e \in Stderr}
        \cup {SpawnFailed}

\* Result<String>
Ok(out) == [ok |-> TRUE, out |-> out, err |-> <<>>]
Err(e) == [ok |-> FALSE, out |-> <<>>, err |-> e]

\* git_command: the process outcome turned into Ok(stdout) or Err(message)
git_command(args, outcome) ==
    IF ~outcome.spawned THEN Err(<<"io error">>)
    ELSE IF ~outcome.success THEN Err(<<"git", args, "failed:", outcome.stderr>>)
    ELSE Ok(outcome.stdout)

\* the state of one repository, as the five queries of the checks see it
StatusLines == {EmptyLine, TrackedLine, UntrackedLine}
StashLines == {EmptyLine, StashLine}
RemoteLines == {BlankLine, RemoteLine}
RefLines == {BlankLine, RefLine}
LogLines == {EmptyLine, CommitLine}

Repos ==
    [status : Outcomes(StatusLines, MaxStatusLines),
     stash : Outcomes(StashLines, MaxLines),
     remote : Outcomes(RemoteLines, MaxLines),
     refs : Outcomes(RefLines, MaxLines),
     log : Outcomes(LogLines, MaxLines)]

(* ---------------------------------------------------------------------- *)
(* checker.rs: the checks. Each takes the result so far and gives the      *)
(* updated result together with the gateway calls it issued, in order.     *)
(* ---------------------------------------------------------------------- *)
Checked(r, issued) == [result |-> r, calls |-> issued]

\* an Err arm that records the finding but leaves the status alone
record_error_keeps_status(r, e) ==
    [r EXCEPT !.reasons = Append(@, GitError(e)), !.errors = Append(@, e)]

\* an Err arm that forgets errors.push
record_error_no_push(r, e) ==
    mark_unknown(r, GitError(e))

\* the Err arm shared by every check: mark_unknown, then errors.push
record_error(r, e) ==
    [mark_unknown(r, GitError(e)) EXCEPT !.errors = Append(@, e)]

\* a counting loop that never looks at the flag
RECURSIVE count_dirty_all(_, _)
count_dirty_all(out, ignore) ==
    IF out = <<>> THEN 0
    ELSE (IF is_empty(Head(out)) THEN 0 ELSE 1) + count_dirty_all(Tail(out), ignore)

\* a counting loop that skips a line when either condition holds
RECURSIVE count_dirty_either(_, _)
count_dirty_either(out, ignore) ==
    IF out = <<>> THEN 0
    ELSE (IF is_empty(Head(out)) THEN 0
          ELSE IF ignore \/ starts_with(Head(out), <<"?", "?">>) THEN 0
          ELSE 1) + count_dirty_either(Tail(out), ignore)

\* the counting loop of check_uncommitted_changes
RECURSIVE count_dirty(_, _)
count_dirty(out, ignore) ==
    IF out = <<>> THEN 0
    ELSE (IF is_empty(Head(out)) THEN 0
          ELSE IF ignore /\ starts_with(Head(out), <<"?", "?">>) THEN 0
          ELSE 1) + count_dirty(Tail(out), ignore)

\* Check A
check_uncommitted_changes(repo, r, ignore) ==
    LET output == git_command(ArgsStatus, repo.status)
        dirty == count_dirty(output.out, ignore)
        counted == [r EXCEPT !.dirty_count = dirty]
    IN  IF ~output.ok THEN Checked(record_error(r, output.err), <<ArgsStatus>>)
        ELSE IF dirty > 0
            THEN Checked(mark_unsafe(counted, UncommittedChanges), <<ArgsStatus>>)
            ELSE Checked(counted, <<ArgsStatus>>)

\* a check B that stores the count and raises nothing
check_stash_count_only(repo, r) ==
    LET output == git_command(ArgsStash, repo.stash)
    IN  IF ~output.ok THEN Checked(record_error(r, output.err), <<ArgsStash>>)
        ELSE Checked([r EXCEPT !.stash_count = count_non_empty(output.out)], <<ArgsStash>>)

\* Check B
check_stash(repo, r) ==
    LET output == git_command(ArgsStash, repo.stash)
        stashes == count_non_empty(output.out)
        counted == [r EXCEPT !.stash_count = stashes]
    IN  IF ~output.ok THEN Checked(record_error(r, output.err), <<ArgsStash>>)
        ELSE IF stashes > 0
            THEN Checked(mark_unsafe(counted, StashExists), <<ArgsStash>>)
            ELSE Checked(counted, <<ArgsStash>>)

\* a check C that looks at the remote-tracking refs only
check_local_only_commits_refs_only(repo, r) ==
    LET remotes == git_command(ArgsRemote, repo.remote)
        remote_refs == git_command(ArgsRefs, repo.refs)
        output == git_command(ArgsLog, repo.log)
        local_only == count_non_empty(output.out)
        counted == [r EXCEPT !.local_only_commit_count = local_only]
    IN  IF ~remotes.ok
            THEN Checked(record_error(r, remotes.err), <<ArgsRemote>>)
        ELSE IF ~remote_refs.ok
            THEN Checked(record_error(r, remote_refs.err), <<ArgsRemote, ArgsRefs>>)
        ELSE IF trim_is_empty(remote_refs.out)
            THEN Checked(mark_unknown(r, NoRemoteRefs), <<ArgsRemote, ArgsRefs>>)
        ELSE IF ~output.ok
            THEN Checked(record_error(r, output.err), <<ArgsRemote, ArgsRefs, ArgsLog>>)
        ELSE IF local_only > 0
            THEN Checked(mark_unsafe(counted, LocalOnlyCommits),
                         <<ArgsRemote, ArgsRefs, ArgsLog>>)
            ELSE Checked(counted, <<ArgsRemote, ArgsRefs, ArgsLog>>)

\* a check C that needs both outputs to be empty
check_local_only_commits_both(repo, r) ==
    LET remotes == git_command(ArgsRemote, repo.remote)
        remote_refs == git_command(ArgsRefs, repo.refs)
        output == git_command(ArgsLog, repo.log)
        local_only == count_non_empty(output.out)
        counted == [r EXCEPT !.local_only_commit_count = local_only]
    IN  IF ~remotes.ok
            THEN Checked(record_error(r, remotes.err), <<ArgsRemote>>)
        ELSE IF ~remote_refs.ok
            THEN Checked(record_error(r, remote_refs.err), <<ArgsRemote, ArgsRefs>>)
        ELSE IF trim_is_empty(remotes.out) /\ trim_is_empty(remote_refs.out)
            THEN Checked(mark_unknown(r, NoRemoteRefs), <<ArgsRemote, ArgsRefs>>)
        ELSE IF ~output.ok
            THEN Checked(record_error(r, output.err), <<ArgsRemote, ArgsRefs, ArgsLog>>)
        ELSE IF local_only > 0
            THEN Checked(mark_unsafe(counted, LocalOnlyCommits),
                         <<ArgsRemote, ArgsRefs, ArgsLog>>)
            ELSE Checked(counted, <<ArgsRemote, ArgsRefs, ArgsLog>>)

\* Check C
check_local_only_commits(repo, r) ==
    LET remotes == git_command(ArgsRemote, repo.remote)
        remote_refs == git_command(ArgsRefs, repo.refs)
        output == git_command(ArgsLog, repo.log)
        local_only == count_non_empty(output.out)
        counted == [r EXCEPT !.local_only_commit_count = local_only]
    IN  IF ~remotes.ok
            THEN Checked(record_error(r, remotes.err), <<ArgsRemote>>)
        ELSE IF ~remote_refs.ok
            THEN Checked(record_error(r, remote_refs.err), <<ArgsRemote, ArgsRefs>>)
        ELSE IF trim_is_empty(remotes.out) \/ trim_is_empty(remote_refs.out)
            THEN Checked(mark_unknown(r, NoRemoteRefs), <<ArgsRemote, ArgsRefs>>)
        ELSE IF ~output.ok
            THEN Checked(record_error(r, output.err), <<ArgsRemote, ArgsRefs, ArgsLog>>)
        ELSE IF local_only > 0
            THEN Checked(mark_unsafe(counted, LocalOnlyCommits),
                         <<ArgsRemote, ArgsRefs, ArgsLog>>)
            ELSE Checked(counted, <<ArgsRemote, ArgsRefs, ArgsLog>>)

\* check_repository, as a function of the repository's state
check_repository(repo, path, ignore) ==
    LET a == check_uncommitted_changes(repo, new(path), ignore).result
        b == check_stash(repo, a).result
        c == check_local_only_commits(repo, b).result
    IN  finalize_safe(c)

\* a quick_recheck that only asks whether the status query went through
quick_recheck_ok_only(repo) == git_command(ArgsStatus, repo.status).ok

\* a quick_recheck that looks at the stash as well
quick_recheck_and_stash(repo) ==
    LET output == git_command(ArgsStatus, repo.status)
        stashes == git_command(ArgsStash, repo.stash)
    IN  output.ok /\ trim_is_empty(output.out) /\ stashes.ok /\ trim_is_empty(stashes.out)

\* a quick_recheck that counts the way the scan counts with untracked ignored
quick_recheck_skips_untracked(repo) ==
    LET output == git_command(ArgsStatus, repo.status)
    IN  output.ok /\ count_dirty(output.out, TRUE) = 0

\* quick_recheck
quick_recheck(repo) ==
    LET output == git_command(ArgsStatus, repo.status)
    IN  output.ok /\ trim_is_empty(output.out)

(* ---------------------------------------------------------------------- *)
(* scanner.rs                                                              *)
(* ---------------------------------------------------------------------- *)
\* a path is the sequence of its characters; paths compare byte by byte
Byte(c) ==
    IF c = "-" THEN 45 ELSE IF c = "a" THEN 97 ELSE IF c = "b" THEN 98
    ELSE IF c = "c" THEN 99 ELSE IF c = "e" THEN 101 ELSE IF c = "o" THEN 111
    ELSE IF c = "p" THEN 112 ELSE 114

RepoA == <<"a", "-", "r", "e", "p", "o">>
RepoB == <<"b", "-", "r", "e", "p", "o">>
RepoC == <<"c", "-", "r", "e", "p", "o">>

\* Ord::cmp on paths gives Less
RECURSIVE path_less(_, _)
path_less(a, b) ==
    IF b = <<>> THEN FALSE
    ELSE IF a = <<>> THEN TRUE
    ELSE IF Byte(Head(a)) # Byte(Head(b)) THEN Byte(Head(a)) < Byte(Head(b))
    ELSE path_less(Tail(a), Tail(b))

\* one result put into a list sorted by path, after the results not greater
RECURSIVE insert_by_path(_, _)
insert_by_path(r, sorted) ==
    IF sorted = <<>> THEN <<r>>
    ELSE IF path_less(r.path, Head(sorted).path) THEN <<r>> \o sorted
    ELSE <<Head(sorted)>> \o insert_by_path(r, Tail(sorted))

\* a scan_repositories that leaves the results as they were collected
sort_by_path_skipped(rs) == rs

\* results.sort_by(|a, b| a.path.cmp(&b.path)): a stable sort
RECURSIVE sort_by_path(_)
sort_by_path(rs) ==
    IF rs = <<>> THEN <<>>
    ELSE insert_by_path(rs[Len(rs)], sort_by_path(SubSeq(rs, 1, Len(rs) - 1)))

\* one path put into a sorted list of paths
RECURSIVE insert_path(_, _)
insert_path(p, sorted) ==
    IF sorted = <<>> THEN <<p>>
    ELSE IF path_less(p, Head(sorted)) THEN <<p>> \o sorted
    ELSE <<Head(sorted)>> \o insert_path(p, Tail(sorted))

\* repos.sort()
RECURSIVE sort_paths(_)
sort_paths(ps) ==
    IF ps = <<>> THEN <<>>
    ELSE insert_path(ps[Len(ps)], sort_paths(SubSeq(ps, 1, Len(ps) - 1)))

\* an is_git_repository content with a .git of any kind
is_git_repository_exists_only(git) == git # "none"

\* is_git_repository: git_path.exists() && git_path.is_dir(), git being what is at git_path
is_git_repository(git) == git # "none" /\ git = "dir"

\* scan_repositories on the repositories found: one result each, then the sort
scan_repositories(repos, state_of, ignore) ==
    sort_by_path([i \in 1..Len(repos) |-> check_repository(state_of[repos[i]], repos[i], ignore)])

(* ---------------------------------------------------------------------- *)
(* delete.rs                                                               *)
(* ---------------------------------------------------------------------- *)
\* a filter that takes every Unknown result
is_candidate_any_unknown(r, allow) ==
    r.status = "Safe" \/ r.status = "Unknown"

\* the closure of the filter in get_delete_candidates
is_candidate(r, allow) ==
    r.status = "Safe" \/ (allow /\ r.status = "Unknown")

\* get_delete_candidates
get_delete_candidates(rs, allow) ==
    SelectSeq(rs, LAMBDA r : is_candidate(r, allow))

\* what a dialoguer Select can come back with
Cancelled == <<"Ok(None)">>
PromptError == <<"Err">>
Chosen(i) == <<"Ok(Some)", i>>

ConfirmSelections == {Chosen(i) : i \in 0..3} \cup {Cancelled, PromptError}
FallbackSelections == {Chosen(i) : i \in 0..1} \cup {Cancelled, PromptError}

\* an ask_confirmation whose catch-all arm says Yes
ask_confirmation_default_yes(selection) ==
    IF selection = Chosen(0) THEN "Yes"
    ELSE IF selection = Chosen(1) THEN "No"
    ELSE IF selection = Chosen(2) THEN "All"
    ELSE IF selection = Chosen(3) THEN "Quit"
    ELSE "Yes"

\* the match at the end of ask_confirmation
ask_confirmation(selection) ==
    IF selection = Chosen(0) THEN "Yes"
    ELSE IF selection = Chosen(1) THEN "No"
    ELSE IF selection = Chosen(2) THEN "All"
    ELSE IF selection = Chosen(3) THEN "Quit"
    ELSE "No"

(* ---------------------------------------------------------------------- *)
(* State                                                                   *)
(* ---------------------------------------------------------------------- *)
VARIABLES
    pc,                 \* where the running operation stands
    ignore_untracked,   \* Args::ignore_untracked
    \* check_repository
    repo,               \* the state of the repository under check
    result,             \* the RepoResult the checks work on
    calls,              \* the gateway calls issued so far, in order
    \* main in delete mode
    world,              \* path -> the state of the repository at that path
    present,            \* path -> the directory is still there
    allow_unknown,      \* Args::allow_unknown
    use_trash,          \* Args::trash
    skip_confirm,       \* Args::yes
    results,            \* what scan_repositories returned
    candidates,         \* what get_delete_candidates returned
    idx,                \* execute_delete: the candidate the loop is at
    delete_all,         \* execute_delete: delete_all
    deleted,            \* execute_delete: deleted
    skipped,            \* execute_delete: skipped
    rechecked,          \* what the status query of this iteration's quick_recheck came to
    report,             \* execute_delete: how each candidate gone through ended, in order
    answer,             \* execute_delete: what ask_confirmation returned in this iteration
    \* find_repositories and scan_repositories
    fs,                 \* the directory tree at base_path
    include_dot,        \* Args::include_dot
    listing,            \* the entries fs::read_dir yields, in the order it yields them
    repos,              \* find_repositories: repos
    slots,              \* scan_repositories: the result of each finished task, by position
    completed           \* the positions of the finished tasks, in the order they finished

checkVars == <<repo, result, calls>>
argVars == <<allow_unknown, use_trash, skip_confirm>>
deleteVars == <<world, present, argVars, results, candidates, idx, delete_all, deleted,
                skipped, rechecked, report, answer>>
scanVars == <<fs, include_dot, listing, repos, slots, completed>>

vars == <<pc, ignore_untracked, checkVars, deleteVars, scanVars>>

ThePath == RepoA

\* no prompt answered in this iteration
NoAnswer == "none"

\* no quick_recheck yet in this iteration
NoRecheck == [spawned |-> FALSE, success |-> TRUE, stdout |-> <<>>, stderr |-> ""]

\* a repository with nothing to lose: clean, no stash, pushed
CleanRepo ==
    [status |-> Spawned(TRUE, <<>>, ""),
     stash |-> Spawned(TRUE, <<>>, ""),
     remote |-> Spawned(TRUE, <<RemoteLine>>, ""),
     refs |-> Spawned(TRUE, <<RefLine>>, ""),
     log |-> Spawned(TRUE, <<>>, "")]

CheckIdle ==
    /\ repo = CleanRepo
    /\ result = new(ThePath)
    /\ calls = <<>>

DeleteIdle ==
    /\ world = <<>>
    /\ present = <<>>
    /\ allow_unknown = FALSE
    /\ use_trash = FALSE
    /\ skip_confirm = FALSE
    /\ results = <<>>
    /\ candidates = <<>>
    /\ idx = 0
    /\ delete_all = FALSE
    /\ deleted = 0
    /\ skipped = 0
    /\ rechecked = NoRecheck
    /\ report = <<>>
    /\ answer = NoAnswer

\* a directory nobody lists
NoTree == [readable |-> FALSE, git |-> "none", entries |-> <<>>]

ScanIdle ==
    /\ fs = NoTree
    /\ include_dot = FALSE
    /\ listing = <<>>
    /\ repos = <<>>
    /\ slots = <<>>
    /\ completed = <<>>

(* ---------------------------------------------------------------------- *)
(* SpecMerge: the methods of a RepoResult, called in any order             *)
(* ---------------------------------------------------------------------- *)
ErrorMessages ==
    {git_command(ArgsStatus, o).err : o \in {SpawnFailed} \cup {Spawned(FALSE, <<>>, e) : e \in Stderr}}

Reasons ==
    {UncommittedChanges, StashExists, LocalOnlyCommits, NoRemoteRefs, AllChecksOk}
        \cup {GitError(m) : m \in ErrorMessages}

InitMerge ==
    /\ pc = "new"
    /\ ignore_untracked = FALSE
    /\ CheckIdle
    /\ DeleteIdle
    /\ ScanIdle

MarkUnsafe ==
    /\ Len(result.reasons) < MaxReasons
    /\ \E reason \in Reasons : result' = mark_unsafe(result, reason)
    /\ pc' = "mark_unsafe"
    /\ UNCHANGED <<repo, ignore_untracked, calls, deleteVars, scanVars>>

MarkUnknown ==
    /\ Len(result.reasons) < MaxReasons
    /\ \E reason \in Reasons : result' = mark_unknown(result, reason)
    /\ pc' = "mark_unknown"
    /\ UNCHANGED <<repo, ignore_untracked, calls, deleteVars, scanVars>>

FinalizeSafe ==
    /\ Len(result.reasons) < MaxReasons
    /\ result' = finalize_safe(result)
    /\ pc' = "finalize_safe"
    /\ UNCHANGED <<repo, ignore_untracked, calls, deleteVars, scanVars>>

NextMerge == MarkUnsafe \/ MarkUnknown \/ FinalizeSafe

SpecMerge == InitMerge /\ [][NextMerge]_vars

(* ---------------------------------------------------------------------- *)
(* Spec: one run of check_repository on a repository in any state          *)
(* ---------------------------------------------------------------------- *)
Init ==
    /\ pc = "check_a"
    /\ repo \in Repos
    /\ ignore_untracked \in BOOLEAN
    /\ result = new(ThePath)
    /\ calls = <<>>
    /\ DeleteIdle
    /\ ScanIdle

CheckUncommittedChanges ==
    /\ pc = "check_a"
    /\ LET c == check_uncommitted_changes(repo, result, ignore_untracked)
       IN  result' = c.result /\ calls' = calls \o c.calls
    /\ pc' = "check_b"
    /\ UNCHANGED <<repo, ignore_untracked, deleteVars, scanVars>>

CheckStash ==
    /\ pc = "check_b"
    /\ LET c == check_stash(repo, result)
       IN  result' = c.result /\ calls' = calls \o c.calls
    /\ pc' = "check_c"
    /\ UNCHANGED <<repo, ignore_untracked, deleteVars, scanVars>>

CheckLocalOnlyCommits ==
    /\ pc = "check_c"
    /\ LET c == check_local_only_commits(repo, result)
       IN  result' = c.result /\ calls' = calls \o c.calls
    /\ pc' = "finalize"
    /\ UNCHANGED <<repo, ignore_untracked, deleteVars, scanVars>>

Finalize ==
    /\ pc = "finalize"
    /\ result' = finalize_safe(result)
    /\ pc' = "done"
    /\ UNCHANGED <<repo, ignore_untracked, calls, deleteVars, scanVars>>

Next == CheckUncommittedChanges \/ CheckStash \/ CheckLocalOnlyCommits \/ Finalize

Spec == Init /\ [][Next]_vars

(* ---------------------------------------------------------------------- *)
(* SpecOrder: the three checks on one fresh result, in any order, then     *)
(* finalize_safe                                                           *)
(* ---------------------------------------------------------------------- *)
OrderRepos ==
    [status : Outcomes(StatusLines, MaxLines),
     stash : Outcomes(StashLines, MaxLines),
     remote : Outcomes(RemoteLines, MaxLines),
     refs : Outcomes(RefLines, MaxLines),
     log : Outcomes(LogLines, MaxLines)]

InitOrder ==
    /\ pc = "checks"
    /\ repo \in OrderRepos
    /\ ignore_untracked \in BOOLEAN
    /\ result = new(ThePath)
    /\ calls = <<>>
    /\ DeleteIdle
    /\ ScanIdle

\* the check that starts with the query args has run
Ran(args) == \E i \in 1..Len(calls) : calls[i] = args

UncommittedChangesInTurn ==
    /\ pc = "checks"
    /\ ~Ran(ArgsStatus)
    /\ LET c == check_uncommitted_changes(repo, result, ignore_untracked)
       IN  result' = c.result /\ calls' = calls \o c.calls
    /\ UNCHANGED <<pc, repo, ignore_untracked, deleteVars, scanVars>>

StashInTurn ==
    /\ pc = "checks"
    /\ ~Ran(ArgsStash)
    /\ LET c == check_stash(repo, result)
       IN  result' = c.result /\ calls' = calls \o c.calls
    /\ UNCHANGED <<pc, repo, ignore_untracked, deleteVars, scanVars>>

LocalOnlyCommitsInTurn ==
    /\ pc = "checks"
    /\ ~Ran(ArgsRemote)
    /\ LET c == check_local_only_commits(repo, result)
       IN  result' = c.result /\ calls' = calls \o c.calls
    /\ UNCHANGED <<pc, repo, ignore_untracked, deleteVars, scanVars>>

FinalizeInTurn ==
    /\ pc = "checks"
    /\ Ran(ArgsStatus) /\ Ran(ArgsStash) /\ Ran(ArgsRemote)
    /\ result' = finalize_safe(result)
    /\ pc' = "ordered"
    /\ UNCHANGED <<repo, ignore_untracked, calls, deleteVars, scanVars>>

NextOrder ==
    \/ UncommittedChangesInTurn
    \/ StashInTurn
    \/ LocalOnlyCommitsInTurn
    \/ FinalizeInTurn

SpecOrder == InitOrder /\ [][NextOrder]_vars

(* ---------------------------------------------------------------------- *)
(* SpecSelect: get_delete_candidates on any list of results                *)
(* ---------------------------------------------------------------------- *)
\* longest list of results handed to get_delete_candidates
MaxResults == 3

Paths == {RepoA, RepoB}

ResultKinds == {[new(p) EXCEPT !.status = s] : p \in Paths, s \in Status}

InitSelect ==
    /\ pc = "select"
    /\ ignore_untracked = FALSE
    /\ CheckIdle
    /\ world = <<>>
    /\ present = <<>>
    /\ allow_unknown \in BOOLEAN
    /\ use_trash = FALSE
    /\ skip_confirm = FALSE
    /\ results \in SeqUpTo(ResultKinds, MaxResults)
    /\ candidates = <<>>
    /\ idx = 0
    /\ delete_all = FALSE
    /\ deleted = 0
    /\ skipped = 0
    /\ rechecked = NoRecheck
    /\ report = <<>>
    /\ answer = NoAnswer
    /\ ScanIdle

\* main: the candidates are selected; with none of them main returns
SelectCandidates ==
    /\ pc = "select"
    /\ candidates' = get_delete_candidates(results, allow_unknown)
    /\ pc' = IF candidates' = <<>> THEN "exit" ELSE "execute"
    /\ UNCHANGED <<ignore_untracked, checkVars, scanVars, world, present, argVars, results, idx,
                   delete_all, deleted, skipped, rechecked, report, answer>>

NextSelect == SelectCandidates

SpecSelect == InitSelect /\ [][NextSelect]_vars

(* ---------------------------------------------------------------------- *)
(* SpecDelete: main in delete mode (scan, selection, execute_delete) while *)
(* somebody else works in the repositories                                 *)
(* ---------------------------------------------------------------------- *)
WithStatus(outcome) == [CleanRepo EXCEPT !.status = outcome]

\* the states a repository is taken through
Worlds ==
    {CleanRepo,
     WithStatus(Spawned(TRUE, <<TrackedLine>>, "")),
     WithStatus(Spawned(TRUE, <<UntrackedLine>>, "")),
     WithStatus(Spawned(FALSE, <<>>, "fatal: not a git repository")),
     [CleanRepo EXCEPT !.stash = Spawned(TRUE, <<StashLine>>, "")],
     [CleanRepo EXCEPT !.log = Spawned(TRUE, <<CommitLine>>, "")],
     [CleanRepo EXCEPT !.remote = Spawned(TRUE, <<>>, ""), !.refs = Spawned(TRUE, <<>>, "")]}

\* the repositories find_repositories comes back with, sorted
Found == <<RepoA, RepoB>>

InitDelete ==
    /\ pc = "scan"
    /\ ignore_untracked \in BOOLEAN
    /\ CheckIdle
    /\ world \in [Paths -> Worlds]
    /\ present = [p \in Paths |-> TRUE]
    /\ allow_unknown \in BOOLEAN
    /\ use_trash \in BOOLEAN
    /\ skip_confirm \in BOOLEAN
    /\ results = <<>>
    /\ candidates = <<>>
    /\ idx = 0
    /\ delete_all = FALSE
    /\ deleted = 0
    /\ skipped = 0
    /\ rechecked = NoRecheck
    /\ report = <<>>
    /\ answer = NoAnswer
    /\ ScanIdle

\* main: scan_repositories
Scan ==
    /\ pc = "scan"
    /\ results' = scan_repositories(Found, world, ignore_untracked)
    /\ pc' = "select"
    /\ UNCHANGED <<ignore_untracked, checkVars, scanVars, world, present, argVars, candidates, idx,
                   delete_all, deleted, skipped, rechecked, report, answer>>

\* execute_delete is entered
EnterExecuteDelete ==
    /\ pc = "execute"
    /\ deleted' = 0
    /\ skipped' = 0
    /\ delete_all' = skip_confirm
    /\ idx' = 1
    /\ pc' = "loop"
    /\ UNCHANGED <<ignore_untracked, checkVars, scanVars, world, present, argVars, results, candidates,
                   rechecked, report, answer>>

Current == candidates[idx].path

\* the iteration ends with the candidate skipped
Skip(why) ==
    /\ report' = Append(report, why)
    /\ skipped' = skipped + 1
    /\ idx' = idx + 1
    /\ rechecked' = NoRecheck
    /\ answer' = NoAnswer
    /\ pc' = "loop"
    /\ UNCHANGED <<deleted, present>>

\* what delete_repository returns
OkTrue == <<"Ok", TRUE>>
OkFalse == <<"Ok", FALSE>>
ErrIo == <<"Err">>

\* an execute_delete that counts all but Ok(false) as deleted
counts_as_deleted_unless_false(returned) == returned # OkFalse

\* an execute_delete that counts whatever delete_repository returned as deleted
counts_as_deleted_always(returned) == TRUE

\* execute_delete: the arm of the match on delete_repository that counts a deletion
counts_as_deleted(returned) == returned = OkTrue

\* execute_delete: the match on what delete_repository returned; the iteration ends
Matched(returned, why) ==
    /\ IF counts_as_deleted(returned)
        THEN /\ report' = Append(report, "deleted")
             /\ deleted' = deleted + 1
             /\ UNCHANGED skipped
        ELSE /\ report' = Append(report, why)
             /\ skipped' = skipped + 1
             /\ UNCHANGED deleted
    /\ idx' = idx + 1
    /\ rechecked' = NoRecheck
    /\ answer' = NoAnswer
    /\ pc' = "loop"

\* the candidate's directory goes, delete_repository returns Ok(true)
Removed ==
    /\ present' = [present EXCEPT ![Current] = FALSE]
    /\ Matched(OkTrue, "deleted")

\* the candidate's directory stays, delete_repository returns something else
Kept(returned, why) ==
    /\ present' = present
    /\ Matched(returned, why)

\* the loop is through the candidates
Return ==
    /\ pc = "loop"
    /\ idx > Len(candidates)
    /\ pc' = "returned"
    /\ UNCHANGED <<ignore_untracked, checkVars, deleteVars, scanVars>>

\* an execute_delete that goes on after Quit
on_answer_no_break(confirm) == "recheck"

\* execute_delete: where the match on the answer leads when the iteration goes on or the
\* loop breaks
on_answer(confirm) == IF confirm = "Quit" THEN "returned" ELSE "recheck"

\* the prompt of an iteration comes back with selection
Answered(selection) ==
    /\ pc = "loop"
    /\ idx <= Len(candidates)
    /\ ~delete_all
    /\ LET confirm == ask_confirmation(selection)
       IN  IF confirm = "No"
           THEN /\ Skip("declined")
                /\ UNCHANGED delete_all
           ELSE /\ answer' = confirm
                /\ delete_all' = (confirm = "All")
                /\ pc' = on_answer(confirm)
                /\ UNCHANGED <<idx, deleted, skipped, rechecked, present, report>>
    /\ UNCHANGED <<ignore_untracked, checkVars, scanVars, world, argVars, results, candidates>>

\* the prompt of an iteration, answered
AskConfirmation == \E selection \in ConfirmSelections : Answered(selection)

\* an iteration that asks nothing
NoConfirmation ==
    /\ pc = "loop"
    /\ idx <= Len(candidates)
    /\ delete_all
    /\ pc' = "recheck"
    /\ UNCHANGED <<ignore_untracked, checkVars, deleteVars, scanVars>>

\* an execute_delete that goes on whatever quick_recheck says
recheck_passes_always(state) == TRUE

\* the test on quick_recheck in execute_delete
recheck_passes(state) == quick_recheck(state)

\* quick_recheck and the branch on it
QuickRecheck ==
    /\ pc = "recheck"
    /\ IF recheck_passes(world[Current])
        THEN /\ rechecked' = world[Current].status
             /\ pc' = IF use_trash THEN "trash" ELSE "remove"
             /\ UNCHANGED <<idx, deleted, skipped, present, report, answer>>
        ELSE Skip("state changed")
    /\ UNCHANGED <<ignore_untracked, checkVars, scanVars, world, argVars, results, candidates,
                   delete_all>>

\* an execute_delete that hands delete_repository the flag of the command line
skip_confirm_passed_from_args(all, yes) == yes

\* execute_delete: the skip_confirm it hands delete_repository
skip_confirm_passed(all, yes) == all

\* delete_repository: trash::delete and, when it fails, what follows at once
TrashDelete ==
    /\ pc = "trash"
    /\ \E moved \in BOOLEAN :
        IF moved THEN Removed
        ELSE IF skip_confirm_passed(delete_all, skip_confirm)
        THEN Kept(OkFalse, "trash failed")
        ELSE /\ pc' = "fallback"
             /\ UNCHANGED <<idx, deleted, skipped, rechecked, present, report, answer>>
    /\ UNCHANGED <<ignore_untracked, checkVars, scanVars, world, argVars, results, candidates,
                   delete_all>>

\* delete_repository: the prompt after a failed trash::delete, answered
FallbackPrompt ==
    /\ pc = "fallback"
    /\ \E selection \in FallbackSelections :
        IF selection = Chosen(0)
        THEN /\ pc' = "remove"
             /\ UNCHANGED <<idx, deleted, skipped, rechecked, present, report, answer>>
        ELSE Kept(OkFalse, "fallback declined")
    /\ UNCHANGED <<ignore_untracked, checkVars, scanVars, world, argVars, results, candidates,
                   delete_all>>

\* delete_repository: fs::remove_dir_all
RemoveDirAll ==
    /\ pc = "remove"
    /\ \E removed \in BOOLEAN : IF removed THEN Removed ELSE Kept(ErrIo, "failed")
    /\ UNCHANGED <<ignore_untracked, checkVars, scanVars, world, argVars, results, candidates,
                   delete_all>>

\* somebody else changes a repository that is still there
Modify ==
    /\ pc \notin {"scan", "exit", "returned"}
    /\ \E p \in Paths :
        /\ present[p]
        /\ \E w \in Worlds \ {world[p]} : world' = [world EXCEPT ![p] = w]
    /\ UNCHANGED <<pc, ignore_untracked, checkVars, scanVars, present, argVars, results, candidates,
                   idx, delete_all, deleted, skipped, rechecked, report, answer>>

NextDelete ==
    \/ Scan
    \/ SelectCandidates
    \/ EnterExecuteDelete
    \/ AskConfirmation
    \/ NoConfirmation
    \/ QuickRecheck
    \/ TrashDelete
    \/ FallbackPrompt
    \/ RemoveDirAll
    \/ Return
    \/ Modify

SpecDelete == InitDelete /\ [][NextDelete]_vars

(* ---------------------------------------------------------------------- *)
(* SpecFind: find_repositories on any directory tree                       *)
(* ---------------------------------------------------------------------- *)
\* base_path; the path of an entry is written from base_path on, so base_path is the
\* empty path and comes before every entry
BasePath == <<>>

Names == {RepoA, RepoB, RepoC}

\* what path.join(".git") is: nothing, a file or a directory
GitKinds == {"none", "file", "dir"}

\* an entry of base_path: a file, or a directory with its .git and, one level deeper,
\* possibly a directory that has a .git directory of its own
EntryKinds ==
    {[is_dir |-> FALSE, git |-> "none", nested |-> FALSE]}
        \cup [is_dir : {TRUE}, git : GitKinds, nested : BOOLEAN]

Trees ==
    [readable : BOOLEAN,
     git : GitKinds,
     entries : UNION {[S -> EntryKinds] : S \in SUBSET Names}]

\* the orders fs::read_dir may yield the names of S in
Orders(S) ==
    {s \in [1..Cardinality(S) -> S] : \A i, j \in 1..Cardinality(S) : s[i] = s[j] => i = j}

InitFind ==
    /\ pc = "find"
    /\ fs \in Trees
    /\ include_dot \in BOOLEAN
    /\ listing = <<>>
    /\ repos = <<>>
    /\ slots = <<>>
    /\ completed = <<>>
    /\ ignore_untracked = FALSE
    /\ CheckIdle
    /\ DeleteIdle

\* if include_dot && is_git_repository(base_path)
CheckBase ==
    /\ pc = "find"
    /\ repos' = IF include_dot /\ is_git_repository(fs.git) THEN Append(repos, BasePath)
                ELSE repos
    /\ pc' = "read_dir"
    /\ UNCHANGED <<ignore_untracked, checkVars, deleteVars, fs, include_dot, listing, slots,
                   completed>>

\* if let Ok(entries) = fs::read_dir(base_path)
ReadDir ==
    /\ pc = "read_dir"
    /\ IF fs.readable
        THEN /\ listing' \in Orders(DOMAIN fs.entries)
             /\ pc' = "entries"
        ELSE /\ listing' = <<>>
             /\ pc' = "sort"
    /\ UNCHANGED <<ignore_untracked, checkVars, deleteVars, fs, include_dot, repos, slots,
                   completed>>

\* one turn of the loop over the entries
VisitEntry ==
    /\ pc = "entries"
    /\ listing # <<>>
    /\ LET path == Head(listing)
       IN  repos' = IF fs.entries[path].is_dir /\ is_git_repository(fs.entries[path].git)
                    THEN Append(repos, path)
                    ELSE repos
    /\ listing' = Tail(listing)
    /\ UNCHANGED <<pc, ignore_untracked, checkVars, deleteVars, fs, include_dot, slots,
                   completed>>

\* repos.sort() and the return
SortRepos ==
    /\ \/ pc = "sort"
       \/ pc = "entries" /\ listing = <<>>
    /\ repos' = sort_paths(repos)
    /\ pc' = "found"
    /\ UNCHANGED <<ignore_untracked, checkVars, deleteVars, fs, include_dot, listing, slots,
                   completed>>

NextFind == CheckBase \/ ReadDir \/ VisitEntry \/ SortRepos

SpecFind == InitFind /\ [][NextFind]_vars

(* ---------------------------------------------------------------------- *)
(* SpecScan: scan_repositories, its tasks finishing in any order           *)
(* ---------------------------------------------------------------------- *)
AllRepos == <<RepoA, RepoB, RepoC>>

\* what find_repositories can come back with: sorted, each path once
FoundLists == {SelectSeq(AllRepos, LAMBDA p : p \in S) : S \in SUBSET Names}

InitScan ==
    /\ pc = "par_iter"
    /\ repos \in FoundLists
    /\ world \in [{repos[i] : i \in 1..Len(repos)} -> Worlds]
    /\ ignore_untracked \in BOOLEAN
    /\ slots = <<>>
    /\ completed = <<>>
    /\ results = <<>>
    /\ fs = NoTree
    /\ include_dot = FALSE
    /\ listing = <<>>
    /\ CheckIdle
    /\ present = <<>>
    /\ allow_unknown = FALSE
    /\ use_trash = FALSE
    /\ skip_confirm = FALSE
    /\ candidates = <<>>
    /\ idx = 0
    /\ delete_all = FALSE
    /\ deleted = 0
    /\ skipped = 0
    /\ rechecked = NoRecheck
    /\ report = <<>>
    /\ answer = NoAnswer

\* the task of one position finishes: check_repository on the path at that position
TaskDone ==
    /\ pc = "par_iter"
    /\ \E i \in 1..Len(repos) :
        /\ i \notin DOMAIN slots
        /\ slots' = (i :> check_repository(world[repos[i]], repos[i], ignore_untracked)) @@ slots
        /\ completed' = Append(completed, i)
    /\ UNCHANGED <<pc, ignore_untracked, checkVars, world, present, argVars, results,
                   candidates, idx, delete_all, deleted, skipped, rechecked, report, answer,
                   fs, include_dot, listing, repos>>

\* collect: the results by position, or in the order the tasks finished in, which is the
\* order the comment in scan_repositories reckons with
Collect ==
    /\ pc = "par_iter"
    /\ Len(completed) = Len(repos)
    /\ \/ results' = [i \in 1..Len(repos) |-> slots[i]]
       \/ results' = [i \in 1..Len(repos) |-> slots[completed[i]]]
    /\ pc' = "collected"
    /\ UNCHANGED <<ignore_untracked, checkVars, world, present, argVars, candidates, idx,
                   delete_all, deleted, skipped, rechecked, report, answer, scanVars>>

\* results.sort_by and the return
SortResults ==
    /\ pc = "collected"
    /\ results' = sort_by_path(results)
    /\ pc' = "scanned"
    /\ UNCHANGED <<ignore_untracked, checkVars, world, present, argVars, candidates, idx,
                   delete_all, deleted, skipped, rechecked, report, answer, scanVars>>

NextScan == TaskDone \/ Collect \/ SortResults

SpecScan == InitScan /\ [][NextScan]_vars

(* ---------------------------------------------------------------------- *)
(* What the formulas below say about a repository's state                  *)
(* ---------------------------------------------------------------------- *)
Has(reasons, reason) == \E i \in 1..Len(reasons) : reasons[i] = reason

\* the outcome the repository gives to a query
OutcomeOf(args) ==
    IF args = ArgsStatus THEN repo.status
    ELSE IF args = ArgsStash THEN repo.stash
    ELSE IF args = ArgsRemote THEN repo.remote
    ELSE IF args = ArgsRefs THEN repo.refs
    ELSE repo.log

Succeeds(args) == OutcomeOf(args).spawned /\ OutcomeOf(args).success

Issued(args) == \E i \in 1..Len(calls) : calls[i] = args

\* the messages of the failed calls among cs, in order
RECURSIVE FailedMessages(_)
FailedMessages(cs) ==
    IF cs = <<>> THEN <<>>
    ELSE (IF Succeeds(Head(cs)) THEN <<>>
          ELSE <<git_command(Head(cs), OutcomeOf(Head(cs))).err>>)
         \o FailedMessages(Tail(cs))

\* a status line of a tracked entry: not empty, not marked ??
IsTrackedLine(line) == Len(line) > 0 /\ ~(Len(line) >= 2 /\ line[1] = "?" /\ line[2] = "?")

HasTrackedLine(out) == \E i \in 1..Len(out) : IsTrackedLine(out[i])

NoRemoteConfigured == trim_is_empty(repo.remote.stdout)
NoRemoteTrackingRefs == trim_is_empty(repo.refs.stdout)

\* a check's gateway call fails
FailsA == ~Succeeds(ArgsStatus)
FailsB == ~Succeeds(ArgsStash)
FailsC ==
    \/ ~Succeeds(ArgsRemote)
    \/ ~Succeeds(ArgsRefs)
    \/ ~NoRemoteConfigured /\ ~NoRemoteTrackingRefs /\ ~Succeeds(ArgsLog)

(* ---------------------------------------------------------------------- *)
(* C1                                                                      *)
(* ---------------------------------------------------------------------- *)
\* C1: whatever mark_unsafe, mark_unknown and finalize_safe calls follow, a
\* result whose status is Unsafe keeps the status Unsafe.
C1_UnsafeIsKept == [][result.status = "Unsafe" => result'.status = "Unsafe"]_vars

\* mark_unknown has just run on a result that was Unsafe, after an earlier call
C1_Witness ==
    /\ pc = "mark_unknown"
    /\ result.status = "Unsafe"
    /\ Len(result.reasons) >= 2

(* ---------------------------------------------------------------------- *)
(* C2                                                                      *)
(* ---------------------------------------------------------------------- *)
\* C2: in the result check_repository returns, AllChecksOk is among the
\* findings if and only if the status is Safe.
C2_AllChecksOkIffSafe ==
    pc = "done" => (Has(result.reasons, AllChecksOk) <=> result.status = "Safe")

C2_Witness ==
    /\ pc = "done"
    /\ result.status = "Safe"
    /\ Has(result.reasons, AllChecksOk)

(* ---------------------------------------------------------------------- *)
(* C3                                                                      *)
(* ---------------------------------------------------------------------- *)
\* a status query that succeeds with nothing but whitespace in its output
CleanStatus(outcome) ==
    outcome.spawned /\ outcome.success /\ trim_is_empty(outcome.stdout)

\* a status query that succeeds and lists uncommitted changes
HasChanges(outcome) ==
    outcome.spawned /\ outcome.success /\ ~trim_is_empty(outcome.stdout)

\* execute_delete is inside delete_repository
InDeleteRepository == pc \in {"trash", "fallback", "remove"}

\* the step removes the directory at p
Removes(p) == present[p] /\ ~present'[p]

\* the recheck step of a candidate whose status query fails or lists something
C3_FailedRecheckSkips ==
    pc = "recheck" /\ world' = world /\ ~CleanStatus(world[Current].status) =>
        /\ skipped' = skipped + 1
        /\ deleted' = deleted
        /\ present' = present
        /\ idx' = idx + 1
        /\ pc' = "loop"

\* C3: a candidate whose quick_recheck returns false (the status query fails
\* or its output is not empty) is counted as skipped and delete_repository is
\* not entered for it; delete_repository runs, and a directory goes, only
\* after a quick_recheck of the same iteration that returned true.
C3_RecheckGuardsDelete ==
    /\ [](InDeleteRepository => rechecked # NoRecheck /\ CleanStatus(rechecked))
    /\ [][C3_FailedRecheckSkips]_vars
    /\ [][\A p \in Paths : Removes(p) => pc \in {"trash", "remove"} /\ p = Current]_vars

\* one candidate removed, the next one skipped on its recheck
C3_Witness ==
    /\ pc = "loop"
    /\ report = <<"deleted", "state changed">>
    /\ ~present[candidates[1].path]
    /\ present[candidates[2].path]
    /\ deleted = 1
    /\ skipped = 1

(* ---------------------------------------------------------------------- *)
(* C4                                                                      *)
(* ---------------------------------------------------------------------- *)
\* the places in results of the results that qualify
Qualifying ==
    {i \in 1..Len(results) :
        \/ results[i].status = "Safe"
        \/ allow_unknown /\ results[i].status = "Unknown"}

\* C4: get_delete_candidates returns exactly the results that are Safe, or
\* Unknown when allow_unknown is set, in their input order, and never an
\* Unsafe one.
C4_CandidatesAreTheQualifying ==
    pc \in {"exit", "execute"} =>
        /\ Len(candidates) = Cardinality(Qualifying)
        /\ \E at \in [1..Len(candidates) -> Qualifying] :
            /\ \A i, j \in 1..Len(candidates) : i < j => at[i] < at[j]
            /\ \A i \in 1..Len(candidates) : candidates[i] = results[at[i]]
        /\ \A i \in 1..Len(candidates) : candidates[i].status # "Unsafe"

\* Unknown, Unsafe and Safe results in one list, Unknown allowed
C4_Witness ==
    /\ pc = "execute"
    /\ allow_unknown
    /\ Len(results) = 3
    /\ results[1].status = "Unknown"
    /\ results[2].status = "Unsafe"
    /\ results[3].status = "Safe"
    /\ candidates = <<results[1], results[3]>>

(* ---------------------------------------------------------------------- *)
(* C5                                                                      *)
(* ---------------------------------------------------------------------- *)
\* C5 as stated: with somebody else changing the working trees at any
\* moment, no repository is removed while its working tree has uncommitted
\* changes.
C5_AsStated ==
    [][\A p \in Paths : Removes(p) => ~HasChanges(world[p].status)]_vars

\* C5 amended: with somebody else changing the working trees at any moment,
\* no repository is removed whose working tree had uncommitted changes when
\* the quick_recheck of its iteration ran; changes made after that
\* quick_recheck returned are not noticed.
C5_CleanWhenRechecked ==
    [][\A p \in Paths : Removes(p) => rechecked # NoRecheck /\ ~HasChanges(rechecked)]_vars

\* a repository is gone whose working tree had uncommitted changes
C5_Witness ==
    \E p \in Paths : ~present[p] /\ HasChanges(world[p].status)

(* ---------------------------------------------------------------------- *)
(* C6                                                                      *)
(* ---------------------------------------------------------------------- *)
\* nothing counted as dirty, nothing stashed, the queries succeed, and either
\* no remote-tracking refs or refs with no unpushed commit
C6_Repository ==
    /\ Succeeds(ArgsStatus) /\ count_dirty(repo.status.stdout, ignore_untracked) = 0
    /\ Succeeds(ArgsStash) /\ count_non_empty(repo.stash.stdout) = 0
    /\ Succeeds(ArgsRemote)
    /\ Succeeds(ArgsRefs)
    /\ \/ NoRemoteTrackingRefs
       \/ Succeeds(ArgsLog) /\ count_non_empty(repo.log.stdout) = 0

C6_SafeResult ==
    /\ result.reasons = <<AllChecksOk>>
    /\ result.dirty_count = 0
    /\ result.stash_count = 0
    /\ result.local_only_commit_count = 0

\* C6 as stated: for such a repository the status is Safe if and only if
\* remote-tracking refs are present (with no unpushed commit), Unknown
\* otherwise, and a Safe result has the findings [AllChecksOk] and counts 0.
C6_AsStated ==
    pc = "done" /\ C6_Repository =>
        /\ result.status = "Safe" <=> ~NoRemoteTrackingRefs
        /\ result.status \in {"Safe", "Unknown"}
        /\ result.status = "Safe" => C6_SafeResult

\* C6 amended: for such a repository the status is Safe if and only if a
\* remote is configured and remote-tracking refs are present (with no
\* unpushed commit), Unknown otherwise, and a Safe result has the findings
\* [AllChecksOk] and counts 0.
C6_SafeIffRemoteAndRefs ==
    pc = "done" /\ C6_Repository =>
        /\ result.status = "Safe" <=> (~NoRemoteConfigured /\ ~NoRemoteTrackingRefs)
        /\ result.status \in {"Safe", "Unknown"}
        /\ result.status = "Safe" => C6_SafeResult

\* refs are present and nothing is unpushed, but no remote is configured
C6_Witness ==
    /\ pc = "done"
    /\ C6_Repository
    /\ NoRemoteConfigured
    /\ ~NoRemoteTrackingRefs
    /\ Succeeds(ArgsLog) /\ count_non_empty(repo.log.stdout) = 0
    /\ result.status = "Unknown"

(* ---------------------------------------------------------------------- *)
(* C7                                                                      *)
(* ---------------------------------------------------------------------- *)
\* C7: when the status query succeeds with at least one line of a tracked
\* entry, the returned result is Unsafe, its dirty_count is positive and
\* UncommittedChanges is among its findings, whatever the later checks find
\* and whatever ignore_untracked is.
C7_TrackedDirtyIsUnsafe ==
    pc = "done" /\ Succeeds(ArgsStatus) /\ HasTrackedLine(repo.status.stdout) =>
        /\ result.status = "Unsafe"
        /\ result.dirty_count > 0
        /\ Has(result.reasons, UncommittedChanges)

\* a tracked change, untracked entries ignored, and both later checks fail
C7_Witness ==
    /\ pc = "done"
    /\ Succeeds(ArgsStatus) /\ HasTrackedLine(repo.status.stdout)
    /\ ignore_untracked
    /\ FailsB /\ FailsC
    /\ result.status = "Unsafe"

(* ---------------------------------------------------------------------- *)
(* C8                                                                      *)
(* ---------------------------------------------------------------------- *)
Downgraded(status) == IF status = "Unsafe" THEN "Unsafe" ELSE "Unknown"

\* a check whose gateway call fails: Unknown unless Unsafe, counts untouched,
\* and control goes on to the next step
C8_FailingCheck ==
    /\ pc = "check_a" /\ FailsA =>
        /\ result'.status = Downgraded(result.status)
        /\ result'.dirty_count = result.dirty_count
        /\ pc' = "check_b"
    /\ pc = "check_b" /\ FailsB =>
        /\ result'.status = Downgraded(result.status)
        /\ result'.stash_count = result.stash_count
        /\ pc' = "check_c"
    /\ pc = "check_c" /\ FailsC =>
        /\ result'.status = Downgraded(result.status)
        /\ result'.local_only_commit_count = result.local_only_commit_count
        /\ pc' = "finalize"

\* all three checks ran, and no failure ends in Safe
C8_Returned ==
    pc = "done" =>
        /\ Issued(ArgsStatus) /\ Issued(ArgsStash) /\ Issued(ArgsRemote)
        /\ (FailsA \/ FailsB \/ FailsC) => result.status # "Safe"

\* C8: a check whose gateway call fails sets the status to Unknown unless it
\* is Unsafe and ends that check only; check_repository always goes through
\* the three checks and the finalization to a result, and a result after a
\* failure is never Safe.
C8_FailureIsLocal ==
    /\ [](C8_Returned /\ (pc # "done" => ENABLED Next))
    /\ [][C8_FailingCheck]_vars

\* the first check failed, the two others ran, the result is Unknown
C8_Witness ==
    /\ pc = "done"
    /\ FailsA /\ ~FailsB /\ ~FailsC
    /\ Issued(ArgsStash) /\ Issued(ArgsLog)
    /\ result.status = "Unknown"

(* ---------------------------------------------------------------------- *)
(* C9                                                                      *)
(* ---------------------------------------------------------------------- *)
\* C9: the error list holds the messages of the failed gateway calls, in
\* order (so it is empty when none failed), and the GitError findings are
\* those same messages, one for one.
C9_ErrorsMatchFindings ==
    LET git_errors == SelectSeq(result.reasons, IsGitError)
    IN  /\ result.errors = FailedMessages(calls)
        /\ Len(git_errors) = Len(result.errors)
        /\ \A i \in 1..Len(git_errors) : git_errors[i] = GitError(result.errors[i])

\* two checks failed with different messages
C9_Witness ==
    /\ pc = "done"
    /\ Len(result.errors) = 2
    /\ result.errors[1] # result.errors[2]

(* ---------------------------------------------------------------------- *)
(* C10                                                                     *)
(* ---------------------------------------------------------------------- *)
\* C10: when the remote and for-each-ref queries succeed and either output
\* is empty, check_local_only_commits appends NoRemoteRefs, sets the status
\* to Unknown unless it is Unsafe, issues no log query and leaves every count
\* (local_only_commit_count at 0) and the error list as they were; the same
\* for either output being the empty one.
C10_NoRemoteRefs ==
    [][pc = "check_c" /\ Succeeds(ArgsRemote) /\ Succeeds(ArgsRefs)
         /\ (NoRemoteConfigured \/ NoRemoteTrackingRefs) =>
            /\ result' = [result EXCEPT !.status = Downgraded(@),
                                        !.reasons = Append(@, NoRemoteRefs)]
            /\ result'.local_only_commit_count = 0
            /\ calls' = calls \o <<ArgsRemote, ArgsRefs>>
            /\ ~Issued(ArgsLog)']_vars

\* a remote is configured but there are no remote-tracking refs, on a clean
\* repository
C10_Witness ==
    /\ pc = "finalize"
    /\ Succeeds(ArgsRemote) /\ Succeeds(ArgsRefs)
    /\ ~NoRemoteConfigured /\ NoRemoteTrackingRefs
    /\ result.reasons = <<NoRemoteRefs>>
    /\ result.status = "Unknown"

(* ---------------------------------------------------------------------- *)
(* C11: the order of the checks                                            *)
(* ---------------------------------------------------------------------- *)
\* how often x occurs in s
Occurrences(s, x) == Cardinality({i \in 1..Len(s) : s[i] = x})

\* s and t hold the same elements, each as often
SameElements(s, t) ==
    /\ Len(s) = Len(t)
    /\ \A i \in 1..Len(s) : Occurrences(s, s[i]) = Occurrences(t, s[i])

\* the strongest of a set of verdicts: Unsafe over Unknown over Safe
Strongest(verdicts) ==
    IF "Unsafe" \in verdicts THEN "Unsafe"
    ELSE IF "Unknown" \in verdicts THEN "Unknown"
    ELSE "Safe"

\* the verdict each check gives when it alone runs on a fresh result
VerdictsAlone ==
    {check_uncommitted_changes(repo, new(ThePath), ignore_untracked).result.status,
     check_stash(repo, new(ThePath)).result.status,
     check_local_only_commits(repo, new(ThePath)).result.status}

\* C11: whatever order the three checks ran in on a fresh result, the finalized result has
\* the verdict and the three counts that the order A, B, C gives, the verdict is the
\* strongest of the verdicts the checks give alone, and the findings and the errors are
\* those of the order A, B, C up to their order
C11_OrderIsImmaterial ==
    pc = "ordered" =>
        LET inOrder == check_repository(repo, ThePath, ignore_untracked)
        IN  /\ result.status = inOrder.status
            /\ result.status = Strongest(VerdictsAlone)
            /\ result.dirty_count = inOrder.dirty_count
            /\ result.stash_count = inOrder.stash_count
            /\ result.local_only_commit_count = inOrder.local_only_commit_count
            /\ SameElements(result.reasons, inOrder.reasons)
            /\ SameElements(result.errors, inOrder.errors)

\* check C ran first and check A last: Unknown was raised to Unsafe, and the findings
\* stand in the order the checks ran in
C11_Witness ==
    /\ pc = "ordered"
    /\ calls = <<ArgsRemote, ArgsRefs, ArgsStash, ArgsStatus>>
    /\ result.status = "Unsafe"
    /\ result.reasons = <<NoRemoteRefs, UncommittedChanges>>
    /\ result.dirty_count = 1

(* ---------------------------------------------------------------------- *)
(* C12: finalize_safe applied twice                                        *)
(* ---------------------------------------------------------------------- *)
\* C12 as stated: a finalize_safe that follows a finalize_safe leaves the result as it is
C12_AsStated ==
    [][pc = "finalize_safe" /\ pc' = "finalize_safe" => result' = result]_vars

\* C12: finalize_safe never touches the verdict, the counts or the errors; applied twice it
\* gives what it gives applied once exactly when the result is not Safe, and on a Safe
\* result each application appends one more AllChecksOk
C12_IdempotentUnlessSafe ==
    LET once == finalize_safe(result)
        twice == finalize_safe(once)
    IN  /\ twice = [result EXCEPT !.reasons = twice.reasons]
        /\ (twice = once) <=> (result.status # "Safe")
        /\ result.status = "Safe" =>
                twice.reasons = result.reasons \o <<AllChecksOk, AllChecksOk>>

\* finalize_safe was applied twice to a Safe result
C12_Witness ==
    /\ pc = "finalize_safe"
    /\ result.status = "Safe"
    /\ result.reasons = <<AllChecksOk, AllChecksOk>>

(* ---------------------------------------------------------------------- *)
(* C14: ignore_untracked                                                   *)
(* ---------------------------------------------------------------------- *)
\* the status query succeeds and lists untracked entries and nothing else
OnlyUntracked ==
    /\ Succeeds(ArgsStatus)
    /\ \E i \in 1..Len(repo.status.stdout) : ~is_empty(repo.status.stdout[i])
    /\ \A i \in 1..Len(repo.status.stdout) : ~IsTrackedLine(repo.status.stdout[i])

NonEmptyStatusLines ==
    Cardinality({i \in 1..Len(repo.status.stdout) : Len(repo.status.stdout[i]) > 0})

\* C14: once check A has run on a repository whose status lists only untracked entries,
\* with ignore_untracked set dirty_count is 0 and there is no UncommittedChanges finding,
\* and with ignore_untracked not set dirty_count is the number of non-empty status lines
\* and the verdict is Unsafe
C14_UntrackedIgnoredOnRequest ==
    pc # "check_a" /\ OnlyUntracked =>
        IF ignore_untracked
        THEN /\ result.dirty_count = 0
             /\ ~Has(result.reasons, UncommittedChanges)
        ELSE /\ result.dirty_count = NonEmptyStatusLines
             /\ Has(result.reasons, UncommittedChanges)
             /\ result.status = "Unsafe"

\* two untracked entries, ignored: the repository comes out Safe
C14_Witness ==
    /\ pc = "done"
    /\ ignore_untracked
    /\ repo.status = Spawned(TRUE, <<UntrackedLine, UntrackedLine>>, "")
    /\ result.dirty_count = 0
    /\ result.status = "Safe"

(* ---------------------------------------------------------------------- *)
(* C15: Quit                                                               *)
(* ---------------------------------------------------------------------- *)
\* the candidates the loop has not gone through
Remaining == {candidates[j].path : j \in idx..Len(candidates)}

\* C15: the step that answers Quit changes no count, no outcome and no directory; after it
\* execute_delete has returned with the counts of the candidates gone through before, the
\* candidate asked about and all later ones are still there, and nothing follows: no
\* prompt, no recheck, no removal
C15_QuitStopsAtOnce ==
    /\ [](answer = "Quit" =>
            /\ pc = "returned"
            /\ idx <= Len(candidates)
            /\ Len(report) = idx - 1
            /\ deleted + skipped = idx - 1
            /\ \A p \in Remaining : present[p])
    /\ [][answer # "Quit" /\ answer' = "Quit" =>
            UNCHANGED <<idx, deleted, skipped, report, present, rechecked>>]_vars
    /\ [][answer # "Quit"]_vars

\* the first candidate was deleted, Quit was answered for the second
C15_Witness ==
    /\ pc = "returned"
    /\ answer = "Quit"
    /\ Len(candidates) = 2
    /\ idx = 2
    /\ report = <<"deleted">>
    /\ deleted = 1 /\ skipped = 0
    /\ ~present[candidates[1].path]
    /\ present[candidates[2].path]

(* ---------------------------------------------------------------------- *)
(* C16: a removal that fails                                               *)
(* ---------------------------------------------------------------------- *)
\* the step of execute_delete that leaves pc = at without removing anything
FailsAt(at) == pc = at /\ pc' # at /\ present' = present

\* the step ends the iteration with the candidate counted as skipped
CountsSkipped(why) ==
    /\ pc' = "loop"
    /\ idx' = idx + 1
    /\ skipped' = skipped + 1
    /\ deleted' = deleted
    /\ report' = Append(report, why)

\* a step of execute_delete
ExecuteDeleteStep ==
    \/ AskConfirmation
    \/ NoConfirmation
    \/ QuickRecheck
    \/ TrashDelete
    \/ FallbackPrompt
    \/ RemoveDirAll
    \/ Return

\* C16: a remove_dir_all that fails, and a trash::delete that fails when no prompt may be
\* shown, end the iteration with the candidate counted as skipped and nothing else changed;
\* the loop is then at the next candidate, and wherever execute_delete stands before its
\* return it has a step to take, so no failure ends it early
C16_FailureIsSkipped ==
    /\ [][FailsAt("remove") => CountsSkipped("failed")]_vars
    /\ [][FailsAt("trash") /\ delete_all => CountsSkipped("trash failed")]_vars
    /\ [](pc \in {"loop", "recheck", "trash", "fallback", "remove"} =>
            ENABLED ExecuteDeleteStep)

\* remove_dir_all failed on the first candidate, the second was deleted all the same
C16_Witness ==
    /\ pc = "returned"
    /\ report = <<"failed", "deleted">>
    /\ skipped = 1 /\ deleted = 1
    /\ present[candidates[1].path]
    /\ ~present[candidates[2].path]

(* ---------------------------------------------------------------------- *)
(* C19: trash::delete fails                                                *)
(* ---------------------------------------------------------------------- *)
\* C19 as stated: when trash::delete fails, delete_repository goes on to the permanent
\* removal, by way of the prompt at most
C19_AsStated ==
    [][FailsAt("trash") => pc' \in {"fallback", "remove"}]_vars

(* ---------------------------------------------------------------------- *)
(* C20: All, and skip_confirm                                              *)
(* ---------------------------------------------------------------------- *)
InExecuteDelete == pc \in {"loop", "recheck", "trash", "fallback", "remove"}

\* C20: with skip_confirm, delete_all is set from the start of execute_delete; once
\* delete_all is set it stays set, no prompt is shown or answered any more, neither the
\* one of the loop nor the one after a failed trash::delete, and still every candidate
\* goes from the loop to quick_recheck, is skipped when its status query fails or lists
\* something, and is removed only if that recheck found it clean
C20_NoPromptButRecheck ==
    /\ [](InExecuteDelete /\ skip_confirm => delete_all)
    /\ [](delete_all => ~ENABLED AskConfirmation /\ ~ENABLED FallbackPrompt)
    /\ [][delete_all => delete_all' /\ answer' \in {answer, NoAnswer}]_vars
    /\ [][delete_all /\ pc = "loop" /\ pc' # "loop" =>
            \/ pc' = "recheck"
            \/ pc' = "returned" /\ idx > Len(candidates)]_vars
    /\ [][delete_all /\ pc = "recheck" /\ pc' # "recheck"
                /\ ~CleanStatus(world[Current].status) => CountsSkipped("state changed")]_vars
    /\ [][delete_all /\ InDeleteRepository /\ Removes(Current) => CleanStatus(rechecked)]_vars

\* All was answered for the first candidate, its trash::delete failed and no prompt
\* followed; the second candidate was rechecked and went without a prompt
C20_Witness ==
    /\ pc = "returned"
    /\ ~skip_confirm
    /\ delete_all
    /\ use_trash
    /\ report = <<"trash failed", "deleted">>
    /\ present[candidates[1].path]
    /\ ~present[candidates[2].path]

(* ---------------------------------------------------------------------- *)
(* C17: the order the tasks finish in                                      *)
(* ---------------------------------------------------------------------- *)
\* the place of a path in the alphabet of the paths
Rank(p) == CHOOSE i \in 1..Len(AllRepos) : AllRepos[i] = p

\* C17: when scan_repositories returns, whatever order its tasks finished in and whichever
\* way the results were collected, there is one result for each repository found, it is
\* the result of check_repository on that repository's own path and state, and the
\* results stand in ascending order of path
C17_OneResultEachInOrder ==
    pc = "scanned" =>
        /\ Len(results) = Len(repos)
        /\ \A i \in 1..Len(results) :
            /\ results[i].path = repos[i]
            /\ results[i] = check_repository(world[repos[i]], repos[i], ignore_untracked)
        /\ \A i, j \in 1..Len(results) :
            i < j => Rank(results[i].path) < Rank(results[j].path)

\* the task of the last repository finished first, and the three verdicts differ
C17_Witness ==
    /\ pc = "scanned"
    /\ completed = <<3, 1, 2>>
    /\ Len(results) = 3
    /\ results[1].path = RepoA /\ results[1].status = "Safe"
    /\ results[2].path = RepoB /\ results[2].status = "Unsafe"
    /\ results[3].path = RepoC /\ results[3].status = "Unknown"

(* ---------------------------------------------------------------------- *)
(* C18: what find_repositories finds                                       *)
(* ---------------------------------------------------------------------- *)
Listed(ps) == {ps[i] : i \in 1..Len(ps)}

\* the entries of base_path that are directories with a .git directory
QualifyingEntries ==
    {n \in DOMAIN fs.entries : fs.entries[n].is_dir /\ fs.entries[n].git = "dir"}

\* base_path itself, when asked for and a repository
QualifyingBase == IF include_dot /\ fs.git = "dir" THEN {BasePath} ELSE {}

\* each path once, base_path first, the entries after it in the order of their names
SortedOnce(ps) ==
    /\ Cardinality(Listed(ps)) = Len(ps)
    /\ \A i, j \in 1..Len(ps) :
        i < j => ps[j] # BasePath /\ (ps[i] # BasePath => Rank(ps[i]) < Rank(ps[j]))

\* C18 as stated: find_repositories returns, sorted, the qualifying entries and, when asked
\* for and qualifying, base_path; nothing at all when base_path cannot be read
C18_AsStated ==
    pc = "found" =>
        /\ SortedOnce(repos)
        /\ Listed(repos) = IF fs.readable THEN QualifyingEntries \cup QualifyingBase ELSE {}

\* C18: find_repositories returns, sorted and each once, the entries of base_path that are
\* directories with a .git directory and, when include_dot is set and base_path has a .git
\* directory, base_path; when base_path cannot be read it returns no entry, but base_path
\* still if asked for and qualifying
C18_FoundAreTheQualifying ==
    pc = "found" =>
        /\ SortedOnce(repos)
        /\ Listed(repos) =
                (IF fs.readable THEN QualifyingEntries ELSE {}) \cup QualifyingBase

\* base_path cannot be read, has a .git directory and was asked for: it is what is found,
\* and the repository among its entries is not
C18_Witness ==
    /\ pc = "found"
    /\ ~fs.readable
    /\ include_dot
    /\ QualifyingEntries # {}
    /\ repos = <<BasePath>>

(* ---------------------------------------------------------------------- *)
(* C21: the prompt of the loop                                             *)
(* ---------------------------------------------------------------------- *)
\* the selections that are not one of the four items: the prompt cancelled, the prompt
\* failing
NoSelection == {Cancelled, PromptError}

\* C21: where the loop asks, a prompt that comes back with No, cancelled or with an error
\* ends the iteration with the candidate counted as skipped, its directory in place and
\* no quick_recheck run; the loop goes on to quick_recheck only on Yes or All; and a
\* directory removed while delete_all is not set was answered Yes, one removed in the
\* iteration of a prompt was answered Yes or All
C21_RemovedOnlyOnYesOrAll ==
    /\ [][\A selection \in NoSelection \cup {Chosen(1)} :
            Answered(selection) =>
                /\ CountsSkipped("declined")
                /\ present' = present
                /\ rechecked' = NoRecheck]_vars
    /\ [][pc = "loop" /\ ~delete_all /\ pc' = "recheck" => answer' \in {"Yes", "All"}]_vars
    /\ [][InDeleteRepository /\ Removes(Current) =>
            /\ ~delete_all => answer = "Yes"
            /\ answer # NoAnswer => answer \in {"Yes", "All"}]_vars
    /\ [](InDeleteRepository \/ pc = "recheck" =>
            answer \in {"Yes", "All"} \/ (delete_all /\ answer = NoAnswer))

\* the first candidate was declined and is still there, the second was answered Yes and
\* is gone
C21_Witness ==
    /\ pc = "returned"
    /\ ~skip_confirm
    /\ ~delete_all
    /\ report = <<"declined", "deleted">>
    /\ present[candidates[1].path]
    /\ ~present[candidates[2].path]

(* ---------------------------------------------------------------------- *)
(* C22: verdict, counts and findings                                       *)
(* ---------------------------------------------------------------------- *)
\* a finding of a check that could not tell
IsUnknownFinding(reason) == IsGitError(reason) \/ reason = NoRemoteRefs

\* the count is positive exactly when the finding is there, and the finding is there at
\* most once
CountMatchesFinding(count, reason) ==
    /\ (count > 0) <=> Has(result.reasons, reason)
    /\ Occurrences(result.reasons, reason) <= 1

\* C22: in the result check_repository returns, the verdict is Unsafe exactly when one of
\* the three counts is positive, each count is positive exactly when its finding is
\* present, which it is at most once, and the verdict is Unknown exactly when none of the
\* three findings is present and a GitError or NoRemoteRefs finding is
C22_VerdictCountsFindingsAgree ==
    pc = "done" =>
        /\ (result.status = "Unsafe") <=>
                \/ result.dirty_count > 0
                \/ result.stash_count > 0
                \/ result.local_only_commit_count > 0
        /\ CountMatchesFinding(result.dirty_count, UncommittedChanges)
        /\ CountMatchesFinding(result.stash_count, StashExists)
        /\ CountMatchesFinding(result.local_only_commit_count, LocalOnlyCommits)
        /\ (result.status = "Unknown") <=>
                /\ ~Has(result.reasons, UncommittedChanges)
                /\ ~Has(result.reasons, StashExists)
                /\ ~Has(result.reasons, LocalOnlyCommits)
                /\ \E i \in 1..Len(result.reasons) : IsUnknownFinding(result.reasons[i])

\* a stash entry and a failing status query: Unsafe with one positive count, its finding
\* next to a GitError
C22_Witness ==
    /\ pc = "done"
    /\ result.status = "Unsafe"
    /\ result.dirty_count = 0
    /\ result.stash_count = 1
    /\ result.local_only_commit_count = 0
    /\ Has(result.reasons, StashExists)
    /\ \E i \in 1..Len(result.reasons) : IsGitError(result.reasons[i])

(* ---------------------------------------------------------------------- *)
(* C23: untracked entries at the recheck                                   *)
(* ---------------------------------------------------------------------- *)
\* a status query that succeeds and lists an untracked entry
HasUntracked(outcome) ==
    /\ outcome.spawned /\ outcome.success
    /\ \E i \in 1..Len(outcome.stdout) : starts_with(outcome.stdout[i], <<"?", "?">>)

\* C23: whatever ignore_untracked the scan ran with, the quick_recheck of a candidate
\* whose status lists an untracked entry ends the iteration with the candidate counted
\* as skipped and its directory in place, and no directory is removed whose quick_recheck
\* saw an untracked entry
C23_UntrackedFailsRecheck ==
    /\ [][pc = "recheck" /\ pc' # "recheck" /\ HasUntracked(world[Current].status) =>
            CountsSkipped("state changed") /\ present' = present]_vars
    /\ [][InDeleteRepository /\ Removes(Current) => ~HasUntracked(rechecked)]_vars

\* scanned with ignore_untracked, the first candidate came out Safe with an untracked
\* entry in it; it is as the scan saw it, and the recheck skipped it
C23_Witness ==
    /\ ignore_untracked
    /\ pc = "loop"
    /\ idx = 2
    /\ candidates[1].status = "Safe"
    /\ world[candidates[1].path] = WithStatus(Spawned(TRUE, <<UntrackedLine>>, ""))
    /\ check_repository(world[candidates[1].path], candidates[1].path, TRUE) = candidates[1]
    /\ report = <<"state changed">>
    /\ present[candidates[1].path]

(* ---------------------------------------------------------------------- *)
(* C24: what the recheck does not look at                                  *)
(* ---------------------------------------------------------------------- *)
\* C24: quick_recheck gives what it gives on a repository that differs in nothing but
\* the status query, and the quick_recheck of a candidate whose status query succeeds
\* and lists nothing sends the loop on to the removal with no count changed, whatever
\* the stash and the commits of the candidate are by then
C24_RecheckLooksAtStatusOnly ==
    /\ [](pc = "recheck" =>
            quick_recheck(world[Current]) = quick_recheck(WithStatus(world[Current].status)))
    /\ [][pc = "recheck" /\ pc' # "recheck" /\ CleanStatus(world[Current].status) =>
            /\ pc' = IF use_trash THEN "trash" ELSE "remove"
            /\ UNCHANGED <<idx, deleted, skipped, report, present>>]_vars

\* the first candidate was scanned Safe, got a stash entry afterwards, which makes it
\* Unsafe to a full check, passed the recheck and is gone
C24_Witness ==
    /\ pc = "loop"
    /\ idx = 2
    /\ candidates[1].status = "Safe"
    /\ world[candidates[1].path] = [CleanRepo EXCEPT !.stash = Spawned(TRUE, <<StashLine>>, "")]
    /\ check_repository(world[candidates[1].path], candidates[1].path,
                        ignore_untracked).status = "Unsafe"
    /\ report = <<"deleted">>
    /\ ~present[candidates[1].path]

(* ---------------------------------------------------------------------- *)
(* C25: the counts of execute_delete                                       *)
(* ---------------------------------------------------------------------- *)
\* the directories that are gone
Gone == {p \in Paths : ~present[p]}

\* C25: all through execute_delete and at its return, deleted + skipped is the number of
\* candidates gone through, each with one outcome on record, and deleted is the number of
\* directories removed; a step moves on by one candidate at most, counts that candidate
\* once and no other, never takes a count back, and removes no directory but that of the
\* candidate the loop is at; at the return the candidates gone through are those before
\* the one answered Quit, or all of them when there was no Quit
C25_CountsAddUp ==
    /\ [](InExecuteDelete \/ pc = "returned" =>
            /\ deleted + skipped = idx - 1
            /\ Len(report) = idx - 1
            /\ deleted = Occurrences(report, "deleted")
            /\ deleted = Cardinality(Gone))
    /\ [](pc = "returned" =>
            IF answer = "Quit" THEN idx <= Len(candidates) ELSE idx = Len(candidates) + 1)
    /\ [][InExecuteDelete =>
            /\ idx' \in {idx, idx + 1}
            /\ deleted' >= deleted
            /\ skipped' >= skipped
            /\ deleted' + skipped' = deleted + skipped + (idx' - idx)]_vars
    /\ [][\A p \in Paths : Removes(p) => InDeleteRepository /\ p = Current]_vars

\* two candidates and no Quit: the fallback prompt of the first was declined, the second
\* was removed, and execute_delete returned one deleted and one skipped
C25_Witness ==
    /\ pc = "returned"
    /\ answer # "Quit"
    /\ Len(candidates) = 2
    /\ report = <<"fallback declined", "deleted">>
    /\ deleted = 1 /\ skipped = 1
    /\ Gone = {candidates[2].path}
====
